---------------------------- MODULE Spec2Model ----------------------------
(***************************************************************************)
(* Model of the pipeline manager view                                      *)
(*   services/orchest-webserver/client/src/components/PipelineList.tsx     *)
(* and of the parameter file dialog                                        *)
(*   services/orchest-webserver/client/src/edit-job-view/                  *)
(*       LoadParametersDialog.tsx                                          *)
(* Strings are sequences of one-character strings, so that the regular     *)
(* expression, toLowerCase, replace and parseInt are computed character by *)
(* character as the JavaScript does.                                       *)
(***************************************************************************)
EXTENDS Integers, Sequences, FiniteSets, TLC

(***************************************************************************)
(* Bounds of the model.                                                    *)
(***************************************************************************)
\* longest list of existing pipelines drawn as input of the name generator
MaxPipelines == 2
\* number of mutating operations (create, rename, delete batch) in one run
MaxOps == 1
\* number of submits of the parameter file form in one run
MaxSubmits == 2

(***************************************************************************)
(* Characters and strings.                                                 *)
(***************************************************************************)
Digits == <<"0", "1", "2", "3", "4", "5", "6", "7", "8", "9">>

IsDigit(c) == \E d \in 1..10 : Digits[d] = c

\* the value of a decimal digit character
DigitVal(c) == (CHOOSE d \in 1..10 : Digits[d] = c) - 1

UpperCase == {"A", "B", "I", "M", "N", "O", "X"}

LowerCase == {"a", "b", "c", "e", "h", "i", "m", "n", "o", "r", "s", "t", "x"}

\* String.prototype.toLowerCase on one character
LowerChar(c) ==
    CASE c = "A" -> "a"
      [] c = "B" -> "b"
      [] c = "I" -> "i"
      [] c = "M" -> "m"
      [] c = "N" -> "n"
      [] c = "O" -> "o"
      [] c = "X" -> "x"
      [] OTHER -> c

ToLowerCase(s) == [k \in 1..Len(s) |-> LowerChar(s[k])]

\* the class \w of a JavaScript regular expression: [A-Za-z0-9_]
IsWordChar(c) == c \in UpperCase \/ c \in LowerCase \/ IsDigit(c) \/ c = "_"

EndsWith(s, suffix) ==
    /\ Len(s) >= Len(suffix)
    /\ SubSeq(s, Len(s) - Len(suffix) + 1, Len(s)) = suffix

StartsWith(s, prefix) ==
    /\ Len(s) >= Len(prefix)
    /\ SubSeq(s, 1, Len(prefix)) = prefix

DotOrchest == <<".", "o", "r", "c", "h", "e", "s", "t">>

INITIAL_PIPELINE_NAME == <<"M", "a", "i", "n">>

INITIAL_PIPELINE_PATH == <<"m", "a", "i", "n">> \o DotOrchest

\* parseInt of a run of decimal digits
RECURSIVE ParseInt(_)
ParseInt(ds) ==
    IF ds = <<>> THEN 0
    ELSE 10 * ParseInt(SubSeq(ds, 1, Len(ds) - 1)) + DigitVal(ds[Len(ds)])

\* a non-negative number rendered by a template literal
RECURSIVE NumberToString(_)
NumberToString(n) ==
    IF n < 10 THEN <<Digits[n + 1]>>
    ELSE NumberToString(n \div 10) \o <<Digits[(n % 10) + 1]>>

\* the longest run of digits of s that starts at position k
RECURSIVE DigitRun(_, _)
DigitRun(s, k) ==
    IF k <= Len(s) /\ IsDigit(s[k]) THEN <<s[k]>> \o DigitRun(s, k + 1)
    ELSE <<>>

(***************************************************************************)
(* regExp = /^Main( [0-9]+)?/i and what name.match(regExp) returns.        *)
(***************************************************************************)
\* whether name.match(regExp) is non-null: the pattern is anchored at the
\* start of the name only
RegExpMatches(name) ==
    StartsWith(ToLowerCase(name), ToLowerCase(INITIAL_PIPELINE_NAME))

\* matches[1] with its leading space trimmed; <<>> stands for undefined
RegExpGroup(name) ==
    LET k == Len(INITIAL_PIPELINE_NAME) + 1
    IN  IF k <= Len(name) /\ name[k] = " " THEN DigitRun(name, k + 1) ELSE <<>>

\* currentNumber of the reducer
CurrentNumber(name) ==
    IF RegExpGroup(name) = <<>> THEN 0 ELSE ParseInt(RegExpGroup(name))

Max(a, b) == IF a >= b THEN a ELSE b

\* pipelines.reduce(..., -1), folded from the left
RECURSIVE LargestExistingNumber(_)
LargestExistingNumber(ps) ==
    IF ps = <<>> THEN -1
    ELSE LET existingNumber == LargestExistingNumber(SubSeq(ps, 1, Len(ps) - 1))
             pipeline == ps[Len(ps)]
         IN  IF ~RegExpMatches(pipeline.name) THEN existingNumber
             ELSE Max(existingNumber, CurrentNumber(pipeline.name))

\* variant of getValidNewPipelineName whose reduction starts from 0, not -1
getValidNewPipelineNameFrom0(ps) ==
    LET newNumber == Max(0, LargestExistingNumber(ps)) + 1
    IN  INITIAL_PIPELINE_NAME \o <<" ">> \o NumberToString(newNumber)

getValidNewPipelineName(ps) ==
    LET newNumber == LargestExistingNumber(ps) + 1
    IN  IF newNumber > 0
        THEN INITIAL_PIPELINE_NAME \o <<" ">> \o NumberToString(newNumber)
        ELSE INITIAL_PIPELINE_NAME

getPathFromName(name) ==
    [k \in 1..Len(name) |->
        IF IsWordChar(LowerChar(name[k])) THEN LowerChar(name[k]) ELSE "_"]
    \o DotOrchest


(***************************************************************************)
(* State of the view and of its collaborators.                             *)
(***************************************************************************)
VARIABLES
    mounted,                \* the view is on screen (it leaves on a fetch error)
    server,                 \* the project's pipelines as the web server holds them
    loaded,                 \* useSWR has delivered data once (isLoaded)
    pipelines,              \* useSWR data: the list the view shows
    pipelineInEdit,         \* useState: {uuid, path} or null
    isCreateDialogOpen,     \* useState
    isEditingPipelinePath,  \* useState
    state,                  \* useState: createPipelineName, createPipelinePath
    status,                 \* useAsync status
    confirm,                \* the uuids the open confirmation dialog asks about
    inflight,               \* requests sent and not yet settled
    ops,                    \* the promise of each mutating operation started, in order
    alert,                  \* what the last step handed to setAlert (NoAlert: nothing)
    consoleError,           \* the last step called console.error
    isOpen,                 \* LoadParametersDialog: the isOpen prop
    selectedPath,           \* LoadParametersDialog: useState
    doesFileExist,          \* useCheckFileValidity: its first result
    isCheckingFileValidity, \* useCheckFileValidity: its second result
    submitted               \* the values the onSubmit prop was called with, in order

\* the state of LoadParametersDialog and of the hooks it holds
dialogVars ==
    <<isOpen, selectedPath, doesFileExist, isCheckingFileValidity, submitted>>

\* the state of PipelineList and of its collaborators
listVars ==
    <<mounted, server, loaded, pipelines, pipelineInEdit, isCreateDialogOpen,
      isEditingPipelinePath, state, status, confirm, inflight, ops, alert,
      consoleError>>

vars ==
    <<mounted, server, loaded, pipelines, pipelineInEdit, isCreateDialogOpen,
      isEditingPipelinePath, state, status, confirm, inflight, ops, alert,
      consoleError, isOpen, selectedPath, doesFileExist,
      isCheckingFileValidity, submitted>>

PipelineMetaData(name, path, uuid) == [name |-> name, path |-> path, uuid |-> uuid]

\* pipelineInEdit === null
NoPipelineInEdit == [uuid |-> 0, path |-> <<>>]

Elems(seq) == {seq[k] : k \in 1..Len(seq)}

Paths(ps) == {p.path : p \in Elems(ps)}

Uuids(ps) == {p.uuid : p \in Elems(ps)}

RECURSIVE SelectSeqBy(_, _)
\* ps without the pipelines whose uuid is in gone
SelectSeqBy(ps, gone) ==
    IF ps = <<>> THEN <<>>
    ELSE IF ps[1].uuid \in gone THEN SelectSeqBy(Tail(ps), gone)
         ELSE <<ps[1]>> \o SelectSeqBy(Tail(ps), gone)

(***************************************************************************)
(* Messages.  A message is its fixed text and the value interpolated in it.*)
(***************************************************************************)
Message(text, arg) == [text |-> text, arg |-> arg]

Undefined == Message("undefined", <<>>)

Alert(title, message) == [title |-> title, message |-> message]

NoAlert == Alert("", Message("", <<>>))

ExtensionMessage == Message("The path should end in the .orchest extension.", <<>>)

ErrorCodes == 0..6

getErrorMessages(path) ==
    [c \in ErrorCodes |->
        CASE c = 0 -> Message("", <<>>)
          [] c = 1 -> Message("Cannot change the pipeline path if an interactive session is running. Please stop it first.", <<>>)
          [] c = 2 -> Message("Cannot change the pipeline path, a file path with the name ${path}\" already exists.", path)
          [] c = 3 -> Message("The pipeline does not exist.", <<>>)
          [] c = 4 -> Message("The pipeline file name should end with \".orchest\".", <<>>)
          [] c = 5 -> Message("The pipeline file does not exist.", <<>>)
          [] c = 6 -> Message("Can't move the pipeline outside of the project.", <<>>)]

\* getErrorMessages(path)[code]: a code outside the table reads undefined
ErrorMessageOf(path, code) ==
    IF code \in DOMAIN getErrorMessages(path)
    THEN getErrorMessages(path)[code]
    ELSE Undefined

(***************************************************************************)
(* Requests and failure bodies.                                            *)
(***************************************************************************)
Request(method, op, uuid, name, path) ==
    [method |-> method, op |-> op, uuid |-> uuid, name |-> name, path |-> path]

NoRequest == Request("", 0, 0, <<>>, <<>>)

\* the body of a rejected response: JSON carrying a code, JSON carrying a
\* message, text that JSON.parse rejects, or a cancelled promise
Body(kind, code, message) == [kind |-> kind, code |-> code, message |-> message]

NoBody == Body("", 0, <<>>)

\* code 7 stands for every code outside the table
RenameFailures == {Body("json", c, <<>>) : c \in 0..7} \cup {Body("raw", 0, <<>>)}

CreateFailures ==
    {Body("json", 0, <<"n", "o">>), Body("raw", 0, <<>>), Body("canceled", 0, <<>>)}

DeleteFailures == {Body("raw", 0, <<>>)}


(***************************************************************************)
(* Collaborators that the view only calls: useAsync, useSWR, setConfirm.   *)
(***************************************************************************)
\* useAsync: run(promise) sets the status to PENDING
RunStatus == "PENDING"

\* useAsync: the status once the promise handed to run has fulfilled; the
\* promises handed to run end in .catch, so they always fulfil
SettledStatus == "RESOLVED"

\* revalidate of useSWR: one GET of the list, tagged with the operation that
\* asked for it (0: the fetch on mount)
FetchRequest(op) == Request("GET", op, 0, <<>>, <<>>)

OpRequests(op) == {r \in inflight : r.op = op /\ r.method # "GET"}

(***************************************************************************)
(* Derived values of a render.                                             *)
(***************************************************************************)
isOperating == status = "PENDING"

isPathTaken == \E row \in Elems(pipelines) : row.path = state.createPipelinePath

EditDialogOpen == isEditingPipelinePath /\ pipelineInEdit # NoPipelineInEdit

\* the submit button of the create form ignores the path check
CreateSubmitDisabledOnlyOperating == isOperating

\* disabled of the create form's submit button
CreateSubmitDisabled == isPathTaken \/ isOperating

\* disabled of the edit form's submit button
EditSaveDisabled == isOperating

\* helperText of the path field of the create form
PathHelperText == IF isPathTaken THEN "File already exists" ELSE ""

\* a dialog is modal: the table and the create button are behind it
ModalOpen == isCreateDialogOpen \/ EditDialogOpen \/ confirm # {}

Interactive == mounted /\ loaded

\* the effect on [pipelines, isCreateDialogOpen]: the state it sets when it runs
DefaultNameState(ps) ==
    LET newName == getValidNewPipelineName(ps)
    IN  [createPipelineName |-> newName,
         createPipelinePath |-> getPathFromName(newName)]

(***************************************************************************)
(* Create flow.                                                            *)
(***************************************************************************)
onCreateClick ==
    /\ Interactive /\ ~ModalOpen
    /\ isCreateDialogOpen' = TRUE
    /\ state' = DefaultNameState(pipelines)
    /\ alert' = NoAlert
    /\ consoleError' = FALSE
    /\ UNCHANGED dialogVars
    /\ UNCHANGED <<mounted, server, loaded, pipelines, pipelineInEdit,
                   isEditingPipelinePath, status, confirm, inflight, ops>>

onCloseCreatePipelineModal ==
    /\ Interactive /\ isCreateDialogOpen
    /\ isCreateDialogOpen' = FALSE
    /\ alert' = NoAlert
    /\ consoleError' = FALSE
    /\ UNCHANGED dialogVars
    /\ UNCHANGED <<mounted, server, loaded, pipelines, pipelineInEdit,
                   isEditingPipelinePath, state, status, confirm, inflight,
                   ops>>

\* what the user types in the two fields of the create form
TypedNames == {<<>>, INITIAL_PIPELINE_NAME}

TypedPaths == {<<>>, <<"b">>, <<"c">> \o DotOrchest}

onChangePipelineName ==
    /\ Interactive /\ isCreateDialogOpen
    /\ \E value \in TypedNames :
          state' = [createPipelinePath |-> getPathFromName(value),
                    createPipelineName |-> value]
    /\ alert' = NoAlert
    /\ consoleError' = FALSE
    /\ UNCHANGED dialogVars
    /\ UNCHANGED <<mounted, server, loaded, pipelines, pipelineInEdit,
                   isCreateDialogOpen, isEditingPipelinePath, status,
                   confirm, inflight, ops>>

onChangePipelinePath ==
    /\ Interactive /\ isCreateDialogOpen
    /\ \E value \in TypedPaths :
          state' = [state EXCEPT !.createPipelinePath = value]
    /\ alert' = NoAlert
    /\ consoleError' = FALSE
    /\ UNCHANGED dialogVars
    /\ UNCHANGED <<mounted, server, loaded, pipelines, pipelineInEdit,
                   isCreateDialogOpen, isEditingPipelinePath, status,
                   confirm, inflight, ops>>

NoMessage == Message("", <<>>)

\* the three checks of onSubmitCreatePipeline: the message of the first one
\* that fails, NoMessage when none does
CreateValidationMessage(pipelineName, pipelinePath) ==
    IF pipelineName = <<>> THEN Message("Please enter a name.", <<>>)
    ELSE IF pipelinePath = <<>> \/ pipelinePath = DotOrchest
         THEN Message("Please enter the path for the pipeline.", <<>>)
    ELSE IF ~EndsWith(pipelinePath, DotOrchest) THEN ExtensionMessage
    ELSE NoMessage

\* the create dialog is closed by every submit, accepted or not
CreateDialogAlwaysCloses(message) == FALSE

\* a submit that fails a check returns before setIsCreateDialogOpen(false)
CreateDialogStaysOpen(message) == message # NoMessage

\* the submit event of the create form; the browser does not raise it while
\* the submit button is disabled
onSubmitCreatePipeline ==
    /\ Interactive /\ isCreateDialogOpen /\ ~CreateSubmitDisabled
    /\ LET pipelineName == state.createPipelineName
           pipelinePath == state.createPipelinePath
           message == CreateValidationMessage(pipelineName, pipelinePath)
           op == Len(ops) + 1
           request == Request("POST", op, 0, pipelineName, pipelinePath)
       IN  IF message # NoMessage
           THEN /\ alert' = Alert("Error", message)
                /\ isCreateDialogOpen' = CreateDialogStaysOpen(message)
                /\ UNCHANGED <<status, inflight, ops>>
           ELSE /\ Len(ops) < MaxOps
                /\ status' = RunStatus
                /\ inflight' = inflight \cup {request}
                /\ ops' = Append(ops, "pending")
                /\ isCreateDialogOpen' = CreateDialogStaysOpen(message)
                /\ alert' = NoAlert
    /\ consoleError' = FALSE
    /\ UNCHANGED dialogVars
    /\ UNCHANGED <<mounted, server, loaded, pipelines, pipelineInEdit,
                   isEditingPipelinePath, state, confirm>>


\* the uuid the server gives the pipeline that operation op creates
CreatedUuid(op) == MaxPipelines + 1 + op

\* the alert after the .catch of the create request has run
CreateCatchAlert(body) ==
    IF body.kind = "canceled" THEN NoAlert
    ELSE IF body.kind = "json"
         THEN Alert("Error", Message("Could not create pipeline. ${data.message}", body.message))
    ELSE Alert("Error", Message("Could not create pipeline. Reason unknown.", <<>>))

\* the POST settles: the server creates the pipeline and .then runs, or it
\* rejects and .catch runs
SettleCreateFulfilled ==
    \E r \in inflight :
        /\ mounted /\ r.method = "POST"
        /\ r.path \notin Paths(server)
        /\ server' = Append(server, PipelineMetaData(r.name, r.path, CreatedUuid(r.op)))
        /\ inflight' = (inflight \ {r}) \cup {FetchRequest(r.op)}
        /\ ops' = [ops EXCEPT ![r.op] = "resolved"]
        /\ status' = SettledStatus
        /\ alert' = NoAlert
        /\ consoleError' = FALSE
        /\ UNCHANGED dialogVars
        /\ UNCHANGED <<mounted, loaded, pipelines, pipelineInEdit,
                       isCreateDialogOpen, isEditingPipelinePath, state,
                       confirm>>

CreateRejectedWith(r, body) ==
        /\ mounted /\ r.method = "POST"
        /\ alert' = CreateCatchAlert(body)
        /\ inflight' = inflight \ {r}
        /\ ops' = [ops EXCEPT ![r.op] = "rejected"]
        /\ status' = SettledStatus
        /\ consoleError' = FALSE
        /\ UNCHANGED dialogVars
        /\ UNCHANGED <<mounted, server, loaded, pipelines, pipelineInEdit,
                       isCreateDialogOpen, isEditingPipelinePath, state,
                       confirm>>

SettleCreateRejected ==
    \E r \in inflight, body \in CreateFailures : CreateRejectedWith(r, body)

(***************************************************************************)
(* The list: useSWR and the two effects that depend on it.                 *)
(***************************************************************************)
\* the GET settles with the server's list; the effect on
\* [pipelines, isCreateDialogOpen] runs again when the data changed
SettleFetchFulfilled ==
    \E r \in inflight :
        /\ mounted /\ r.method = "GET"
        /\ inflight' = inflight \ {r}
        /\ pipelines' = server
        /\ loaded' = TRUE
        /\ state' = IF isCreateDialogOpen /\ (server # pipelines \/ ~loaded)
                    THEN DefaultNameState(server)
                    ELSE state
        /\ alert' = NoAlert
        /\ consoleError' = FALSE
        /\ UNCHANGED dialogVars
        /\ UNCHANGED <<mounted, server, pipelineInEdit, isCreateDialogOpen,
                       isEditingPipelinePath, status, confirm, ops>>

\* the GET fails: the effect on [error] alerts and navigates to the projects
SettleFetchRejected ==
    \E r \in inflight :
        /\ mounted /\ r.method = "GET"
        /\ inflight' = inflight \ {r}
        /\ alert' = Alert("Error", Message("Failed to fetch pipelines: ${error}", <<>>))
        /\ mounted' = FALSE
        /\ consoleError' = FALSE
        /\ UNCHANGED dialogVars
        /\ UNCHANGED <<server, loaded, pipelines, pipelineInEdit,
                       isCreateDialogOpen, isEditingPipelinePath, state,
                       status, confirm, ops>>

(***************************************************************************)
(* Delete flow.                                                            *)
(***************************************************************************)
\* deleteSelectedRows of the table: setConfirm opens the confirmation dialog
deletePipelines ==
    /\ Interactive /\ ~ModalOpen
    /\ \E pipelineUuids \in SUBSET Uuids(pipelines) :
          /\ pipelineUuids # {}
          /\ confirm' = pipelineUuids
    /\ alert' = NoAlert
    /\ consoleError' = FALSE
    /\ UNCHANGED dialogVars
    /\ UNCHANGED <<mounted, server, loaded, pipelines, pipelineInEdit,
                   isCreateDialogOpen, isEditingPipelinePath, state, status,
                   inflight, ops>>

\* the requests deleting only the first of the selected pipelines
requestDeleteFirst(op, pipelineUuids) ==
    {Request("DELETE", op, CHOOSE u \in pipelineUuids : \A v \in pipelineUuids : u <= v,
             <<>>, <<>>)}

\* pipelineUuids.map((uuid) => requestDeletePipelines(projectUuid, uuid))
requestDeletePipelines(op, pipelineUuids) ==
    {Request("DELETE", op, uuid, <<>>, <<>>) : uuid \in pipelineUuids}

\* the user confirms: the callback handed to setConfirm runs
confirmDelete ==
    /\ Interactive /\ confirm # {}
    /\ Len(ops) < MaxOps
    /\ LET op == Len(ops) + 1
       IN  /\ inflight' = inflight \cup requestDeletePipelines(op, confirm)
           /\ ops' = Append(ops, "pending")
    /\ confirm' = {}
    /\ alert' = NoAlert
    /\ consoleError' = FALSE
    /\ UNCHANGED dialogVars
    /\ UNCHANGED <<mounted, server, loaded, pipelines, pipelineInEdit,
                   isCreateDialogOpen, isEditingPipelinePath, state, status>>

\* the user dismisses the confirmation dialog: the callback never runs
cancelDelete ==
    /\ Interactive /\ confirm # {}
    /\ confirm' = {}
    /\ alert' = NoAlert
    /\ consoleError' = FALSE
    /\ UNCHANGED dialogVars
    /\ UNCHANGED <<mounted, server, loaded, pipelines, pipelineInEdit,
                   isCreateDialogOpen, isEditingPipelinePath, state, status,
                   inflight, ops>>

\* Promise.race in place of Promise.all: fulfilled by the first response
FirstFulfilled(r) == TRUE

\* Promise.all: fulfilled when r was the last request of its batch in flight
AllFulfilled(r) == OpRequests(r.op) \ {r} = {}

\* one DELETE is fulfilled; .then of Promise.all runs if the batch is complete
\* and none of it was rejected
SettleDeleteFulfilled ==
    \E r \in inflight :
        /\ mounted /\ r.method = "DELETE"
        /\ r.uuid \in Uuids(server)
        /\ server' = SelectSeqBy(server, {r.uuid})
        /\ IF ops[r.op] = "pending" /\ AllFulfilled(r)
           THEN /\ inflight' = (inflight \ {r}) \cup {FetchRequest(r.op)}
                /\ ops' = [ops EXCEPT ![r.op] = "resolved"]
           ELSE /\ inflight' = inflight \ {r}
                /\ UNCHANGED ops
        /\ alert' = NoAlert
        /\ consoleError' = FALSE
        /\ UNCHANGED dialogVars
        /\ UNCHANGED <<mounted, loaded, pipelines, pipelineInEdit,
                       isCreateDialogOpen, isEditingPipelinePath, state,
                       status, confirm>>

\* one DELETE is rejected; .catch of Promise.all runs at the first rejection
SettleDeleteRejected ==
    \E r \in inflight, body \in DeleteFailures :
        /\ mounted /\ r.method = "DELETE"
        /\ inflight' = inflight \ {r}
        /\ IF ops[r.op] = "pending"
           THEN /\ alert' = Alert("Error", Message("Failed to delete pipeline: ${e}", <<>>))
                /\ ops' = [ops EXCEPT ![r.op] = "rejected"]
           ELSE /\ alert' = NoAlert
                /\ UNCHANGED ops
        /\ consoleError' = FALSE
        /\ UNCHANGED dialogVars
        /\ UNCHANGED <<mounted, server, loaded, pipelines, pipelineInEdit,
                       isCreateDialogOpen, isEditingPipelinePath, state,
                       status, confirm>>


(***************************************************************************)
(* Rename (edit path) flow.                                                *)
(***************************************************************************)
\* the edit icon of a row
onEditClick ==
    /\ Interactive /\ ~ModalOpen
    /\ \E row \in Elems(pipelines) :
          pipelineInEdit' = [uuid |-> row.uuid, path |-> row.path]
    /\ isEditingPipelinePath' = TRUE
    /\ alert' = NoAlert
    /\ consoleError' = FALSE
    /\ UNCHANGED dialogVars
    /\ UNCHANGED <<mounted, server, loaded, pipelines, isCreateDialogOpen,
                   state, status, confirm, inflight, ops>>

\* onChange of PipelinePathTextField
onChangeEditPath ==
    /\ Interactive /\ EditDialogOpen
    /\ \E newPath \in TypedPaths :
          pipelineInEdit' = [pipelineInEdit EXCEPT !.path = newPath]
    /\ alert' = NoAlert
    /\ consoleError' = FALSE
    /\ UNCHANGED dialogVars
    /\ UNCHANGED <<mounted, server, loaded, pipelines, isCreateDialogOpen,
                   isEditingPipelinePath, state, status, confirm, inflight,
                   ops>>

\* the Cancel button and the backdrop of the edit dialog
onCloseEditPipelineModal ==
    /\ Interactive /\ EditDialogOpen
    /\ isEditingPipelinePath' = FALSE
    /\ alert' = NoAlert
    /\ consoleError' = FALSE
    /\ UNCHANGED dialogVars
    /\ UNCHANGED <<mounted, server, loaded, pipelines, pipelineInEdit,
                   isCreateDialogOpen, state, status, confirm, inflight,
                   ops>>

\* the extension check left out
EditPathAccepted(path) == FALSE

\* !pipelineInEdit.path.endsWith(".orchest")
EditPathRejected(path) == ~EndsWith(path, DotOrchest)

\* the submit event of the edit form; the form is on screen only while
\* pipelineInEdit is not null
onSubmitEditPipelinePathModal ==
    /\ Interactive /\ EditDialogOpen /\ ~EditSaveDisabled
    /\ IF EditPathRejected(pipelineInEdit.path)
       THEN /\ alert' = Alert("Error", ExtensionMessage)
            /\ UNCHANGED <<status, inflight, ops>>
       ELSE LET op == Len(ops) + 1
                request == Request("PUT", op, pipelineInEdit.uuid, <<>>, pipelineInEdit.path)
            IN  /\ Len(ops) < MaxOps
                /\ status' = RunStatus
                /\ inflight' = inflight \cup {request}
                /\ ops' = Append(ops, "pending")
                /\ alert' = NoAlert
    /\ consoleError' = FALSE
    /\ UNCHANGED dialogVars
    /\ UNCHANGED <<mounted, server, loaded, pipelines, pipelineInEdit,
                   isCreateDialogOpen, isEditingPipelinePath, state,
                   confirm>>

RECURSIVE Renamed(_, _, _)
\* ps with the path of pipeline uuid replaced
Renamed(ps, uuid, path) ==
    IF ps = <<>> THEN <<>>
    ELSE <<IF ps[1].uuid = uuid THEN [ps[1] EXCEPT !.path = path] ELSE ps[1]>>
         \o Renamed(Tail(ps), uuid, path)

\* the PUT is fulfilled: .then fetches the list again, .finally closes the dialog
SettleRenameFulfilled ==
    \E r \in inflight :
        /\ mounted /\ r.method = "PUT"
        /\ r.uuid \in Uuids(server)
        /\ r.path \notin Paths(server)
        /\ EndsWith(r.path, DotOrchest)
        /\ server' = Renamed(server, r.uuid, r.path)
        /\ inflight' = (inflight \ {r}) \cup {FetchRequest(r.op)}
        /\ ops' = [ops EXCEPT ![r.op] = "resolved"]
        /\ status' = SettledStatus
        /\ isEditingPipelinePath' = FALSE
        /\ alert' = NoAlert
        /\ consoleError' = FALSE
        /\ UNCHANGED dialogVars
        /\ UNCHANGED <<mounted, loaded, pipelines, pipelineInEdit,
                       isCreateDialogOpen, state, confirm>>

\* the alert after the .catch of the rename request has run: e.body parses to
\* resp, or JSON.parse throws and the inner catch only logs
RenameCatchAlert(body, path) ==
    IF body.kind = "json" THEN Alert("Error", ErrorMessageOf(path, body.code))
    ELSE NoAlert

\* the PUT is rejected: .catch reports it, .finally closes the dialog
RenameRejectedWith(r, body) ==
        /\ mounted /\ r.method = "PUT"
        /\ inflight' = inflight \ {r}
        /\ alert' = RenameCatchAlert(body, r.path)
        /\ consoleError' = (body.kind # "json")
        /\ UNCHANGED dialogVars
        /\ ops' = [ops EXCEPT ![r.op] = "rejected"]
        /\ status' = SettledStatus
        /\ isEditingPipelinePath' = FALSE
        /\ UNCHANGED <<mounted, server, loaded, pipelines, pipelineInEdit,
                       isCreateDialogOpen, state, confirm>>

SettleRenameRejected ==
    \E r \in inflight, body \in RenameFailures : RenameRejectedWith(r, body)

(***************************************************************************)
(* The parameter file dialog: LoadParametersDialog and the file picker it  *)
(* holds.                                                                  *)
(***************************************************************************)
DotJson == <<".", "j", "s", "o", "n">>

\* allowedExtensions={["json"]}
allowedExtensions == {DotJson}

\* the files of the project, by their project-relative path
ProjectFiles == {<<"a">> \o DotJson, <<"c">> \o DotOrchest}

\* what the file picker hands to onChange: nothing, a file that exists, a
\* file that does not, and a file of another extension
PickedPaths ==
    {<<>>, <<"a">> \o DotJson, <<"b">> \o DotJson, <<"c">> \o DotOrchest}

\* the path is that of an existing file with an allowed extension
FileValid(path) ==
    /\ path \in ProjectFiles
    /\ \E extension \in allowedExtensions : EndsWith(path, extension)

\* the dialog as it is constructed: closed, nothing selected, nothing checked
DialogInit ==
    /\ isOpen = FALSE
    /\ selectedPath = <<>>
    /\ doesFileExist = FALSE
    /\ isCheckingFileValidity = FALSE
    /\ submitted = <<>>

\* the parent shows the dialog
openDialog ==
    /\ ~isOpen
    /\ isOpen' = TRUE
    /\ UNCHANGED <<selectedPath, doesFileExist, isCheckingFileValidity, submitted>>
    /\ UNCHANGED listVars

\* the Cancel button and the backdrop: the parent hides the dialog, which
\* stays mounted and keeps its selected path
onClose ==
    /\ isOpen
    /\ isOpen' = FALSE
    /\ UNCHANGED <<selectedPath, doesFileExist, isCheckingFileValidity, submitted>>
    /\ UNCHANGED listVars

\* onChange of the file picker is setSelectedPath; useCheckFileValidity
\* starts a check of the new path unless it is empty
onChangeFilePath ==
    /\ isOpen
    /\ \E value \in PickedPaths :
          /\ value # selectedPath
          /\ selectedPath' = value
          /\ isCheckingFileValidity' = (value # <<>>)
    /\ doesFileExist' = FALSE
    /\ UNCHANGED <<isOpen, submitted>>
    /\ UNCHANGED listVars

\* the check of useCheckFileValidity settles with what the server found
SettleCheckFileValidity ==
    /\ isCheckingFileValidity
    /\ isCheckingFileValidity' = FALSE
    /\ doesFileExist' = FileValid(selectedPath)
    /\ UNCHANGED <<isOpen, selectedPath, submitted>>
    /\ UNCHANGED listVars

\* the submit event of the form load-parameters, raised by the Load button
onSubmit ==
    /\ isOpen
    /\ Len(submitted) < MaxSubmits
    /\ submitted' = Append(submitted, selectedPath)
    /\ UNCHANGED <<isOpen, selectedPath, doesFileExist, isCheckingFileValidity>>
    /\ UNCHANGED listVars

(***************************************************************************)
(* The view from its mount on.                                             *)
(***************************************************************************)
Pipeline1 == PipelineMetaData(INITIAL_PIPELINE_NAME, INITIAL_PIPELINE_PATH, 1)

Pipeline2 == PipelineMetaData(<<"B">>, <<"b">> \o DotOrchest, 2)

\* the projects the view is opened on
InitialServers == {<<Pipeline1, Pipeline2>>}

ViewInit ==
    /\ mounted = TRUE
    /\ pipelineInEdit = NoPipelineInEdit
    /\ isCreateDialogOpen = FALSE
    /\ isEditingPipelinePath = TRUE
    /\ state = [createPipelineName |-> INITIAL_PIPELINE_NAME,
                createPipelinePath |-> INITIAL_PIPELINE_PATH]
    /\ status = "IDLE"
    /\ confirm = {}
    /\ ops = <<>>
    /\ alert = NoAlert
    /\ consoleError = FALSE

Init ==
    /\ ViewInit
    /\ DialogInit
    /\ server \in InitialServers
    /\ loaded = FALSE
    /\ pipelines = <<>>
    /\ inflight = {FetchRequest(0)}

Next ==
    \/ onCreateClick
    \/ onCloseCreatePipelineModal
    \/ onChangePipelineName
    \/ onChangePipelinePath
    \/ onSubmitCreatePipeline
    \/ SettleCreateFulfilled
    \/ SettleCreateRejected
    \/ SettleFetchFulfilled
    \/ SettleFetchRejected
    \/ deletePipelines
    \/ confirmDelete
    \/ cancelDelete
    \/ SettleDeleteFulfilled
    \/ SettleDeleteRejected
    \/ onEditClick
    \/ onChangeEditPath
    \/ onCloseEditPipelineModal
    \/ onSubmitEditPipelinePathModal
    \/ SettleRenameFulfilled
    \/ SettleRenameRejected

Spec == Init /\ [][Next]_vars


(***************************************************************************)
(* The default name and path, over many lists of existing pipelines: the   *)
(* view is loaded with a list and the user opens and closes the create     *)
(* dialog.                                                                 *)
(***************************************************************************)
ExistingNames ==
    { INITIAL_PIPELINE_NAME,
      <<"m", "a", "i", "n">>,
      <<"M", "a", "i", "n", " ", "1">>,
      <<"M", "a", "i", "n", " ", "2">>,
      <<"M", "A", "I", "N", " ", "3">>,
      <<"M", "a", "i", "n", " ", "1", "0">>,
      <<"M", "a", "i", "n", "_", "1">>,
      <<"M", "a", "i", "n", "x">>,
      <<"M", "a", "i", "n", " ", "1", "x">>,
      <<"M", "a", "i", "n", " ", " ", "2">>,
      <<"x", "M", "a", "i", "n">>,
      <<"B">> }

\* a pipeline's path is the one derived from its name unless the user chose
\* another when creating it or moved it since
ExistingPipelines ==
    {<<name, path>> : name \in ExistingNames,
                      path \in {INITIAL_PIPELINE_PATH, <<"b">> \o DotOrchest}}
    \cup {<<name, getPathFromName(name)>> : name \in ExistingNames}

\* the lists of n pipelines with pairwise different paths
RECURSIVE ListsOfLen(_)
ListsOfLen(n) ==
    IF n = 0 THEN {<<>>}
    ELSE UNION {{Append(ps, PipelineMetaData(np[1], np[2], n)) :
                    np \in {x \in ExistingPipelines : x[2] \notin Paths(ps)}} :
                ps \in ListsOfLen(n - 1)}

ExistingLists == UNION {ListsOfLen(n) : n \in 0..MaxPipelines}

InitNames ==
    /\ ViewInit
    /\ DialogInit
    /\ server \in ExistingLists
    /\ pipelines = server
    /\ loaded = TRUE
    /\ inflight = {}

NextNames == onCreateClick \/ onCloseCreatePipelineModal

SpecNames == InitNames /\ [][NextNames]_vars

(***************************************************************************)
(* Properties of the default name and path.                                *)
(***************************************************************************)
NamesDistinct(ps) ==
    \A j, k \in 1..Len(ps) : j # k => ps[j].name # ps[k].name

\* C1: whenever the create dialog has opened on a list of pipelines with
\* pairwise distinct names, the default path it proposes is the path of
\* none of them.
DefaultPathIsFree ==
    (isCreateDialogOpen /\ NamesDistinct(pipelines))
        => state.createPipelinePath \notin Paths(pipelines)

AllDigits(s) == \A k \in 1..Len(s) : IsDigit(s[k])

\* the whole name is "Main" or "Main <digits>", in any letter case
IsMainName(name) ==
    LET lower == ToLowerCase(name)
        base == ToLowerCase(INITIAL_PIPELINE_NAME)
        rest == SubSeq(lower, Len(base) + 2, Len(lower))
    IN  \/ lower = base
        \/ /\ StartsWith(lower, base \o <<" ">>)
           /\ rest # <<>>
           /\ AllDigits(rest)

\* the name begins with "Main", in any letter case
BeginsWithMain(name) ==
    /\ Len(name) >= Len(INITIAL_PIPELINE_NAME)
    /\ \A k \in 1..Len(INITIAL_PIPELINE_NAME) :
          LowerChar(name[k]) = LowerChar(INITIAL_PIPELINE_NAME[k])

\* the numeric suffixes of the names of ps that satisfy Matching
Suffixes(ps, Matching(_)) ==
    {CurrentNumber(p.name) : p \in {q \in Elems(ps) : Matching(q.name)}}

\* "Main" when no name matches, else "Main <N+1>" for the largest suffix N
NextName(ps, Matching(_)) ==
    LET suffixes == Suffixes(ps, Matching)
    IN  IF suffixes = {} THEN INITIAL_PIPELINE_NAME
        ELSE LET N == CHOOSE n \in suffixes : \A m \in suffixes : m <= n
             IN  INITIAL_PIPELINE_NAME \o <<" ">> \o NumberToString(N + 1)

\* C2 as stated, a name matching when the whole of it is "Main" or
\* "Main <N>": the proposed name is "Main" when no existing name matches and
\* "Main <N+1>" otherwise, N the largest suffix of the matching names.
NextNameOfWholeMatches ==
    isCreateDialogOpen => state.createPipelineName = NextName(pipelines, IsMainName)

\* C2 amended, a name matching when it begins with "Main" (the pattern is
\* anchored at the start only) and its suffix being the digits that follow
\* "Main " directly, 0 when there are none: the proposed name is "Main" when
\* no existing name matches, and otherwise "Main <N+1>" for the largest
\* suffix N, which is greater than the suffix of every matching name.
NextNameOfPrefixMatches ==
    isCreateDialogOpen =>
        /\ state.createPipelineName = NextName(pipelines, BeginsWithMain)
        /\ \A n \in Suffixes(pipelines, BeginsWithMain) :
              CurrentNumber(state.createPipelineName) > n
        /\ state.createPipelinePath = getPathFromName(state.createPipelineName)

\* the dialog is open on ["Main", "Main 1", "Main 3"]-like input: several
\* matching names, one of them not a whole match, and the name proposed
\* carries a suffix
NextNameProposed ==
    /\ isCreateDialogOpen
    /\ Cardinality(Suffixes(pipelines, BeginsWithMain)) >= 2
    /\ \E p \in Elems(pipelines) : BeginsWithMain(p.name) /\ ~IsMainName(p.name)
    /\ state.createPipelineName # INITIAL_PIPELINE_NAME


(***************************************************************************)
(* Properties of the create, rename and delete flows.                      *)
(***************************************************************************)
\* the requests of one method that a step sends
Sent(method) == {r \in inflight' \ inflight : r.method = method}

Mutating == {"POST", "PUT", "DELETE"}

\* the create form holds something the claim lists as invalid
CreateInputInvalid ==
    \/ state.createPipelineName = <<>>
    \/ state.createPipelinePath = <<>>
    \/ state.createPipelinePath = DotOrchest
    \/ isPathTaken
    \/ ~EndsWith(state.createPipelinePath, DotOrchest)

\* C3: a submit of the create form with an empty name, a missing path, a
\* path that an existing pipeline has or a path without the extension sends
\* no request and shows a message (an alert, or the helper text of the path
\* field); every other submit sends exactly one request, the POST of the
\* name and path of the form.  While the path is taken the form shows
\* "File already exists" and its submit button is disabled.
CreateSubmitValidated ==
    /\ [][onSubmitCreatePipeline =>
            IF CreateInputInvalid
            THEN /\ inflight' = inflight
                 /\ alert'.title = "Error" \/ PathHelperText # ""
            ELSE /\ inflight' \ inflight
                      = {Request("POST", Len(ops) + 1, 0, state.createPipelineName,
                                 state.createPipelinePath)}
                 /\ inflight \subseteq inflight']_vars
    /\ []((isCreateDialogOpen /\ isPathTaken)
            => (PathHelperText = "File already exists" /\ ~ENABLED onSubmitCreatePipeline))

\* a submit of the create form was refused for its missing path: the alert
\* is up and nothing was sent
CreateSubmitRefused ==
    /\ isCreateDialogOpen
    /\ state.createPipelineName # <<>>
    /\ state.createPipelinePath \in {<<>>, DotOrchest}
    /\ alert = Alert("Error", Message("Please enter the path for the pipeline.", <<>>))
    /\ inflight = {}

\* C4: a submit of the edit form with a path that does not end in .orchest
\* shows the alert "The path should end in the .orchest extension.", sends
\* nothing, and leaves pipelineInEdit and the open dialog as they were.
EditSubmitWithoutExtension ==
    [][(onSubmitEditPipelinePathModal /\ ~EndsWith(pipelineInEdit.path, DotOrchest))
          => /\ alert' = Alert("Error", ExtensionMessage)
             /\ inflight' = inflight
             /\ pipelineInEdit' = pipelineInEdit
             /\ isEditingPipelinePath' = isEditingPipelinePath
             /\ EditDialogOpen']_vars

\* the edit form was submitted with a path without the extension
EditSubmitRefused ==
    /\ EditDialogOpen
    /\ ~EndsWith(pipelineInEdit.path, DotOrchest)
    /\ alert = Alert("Error", ExtensionMessage)
    /\ \A r \in inflight : r.method # "PUT"

\* C5: DELETE requests are sent only by the step in which the user confirms
\* the dialog that deletePipelines opened, and that step sends exactly one
\* for each selected uuid; dismissing the dialog sends none.
DeleteOnlyOnConfirm ==
    [][/\ Sent("DELETE") # {} => (confirm # {} /\ confirmDelete)
       /\ confirmDelete =>
             /\ {r.uuid : r \in Sent("DELETE")} = confirm
             /\ Cardinality(Sent("DELETE")) = Cardinality(confirm)
       /\ cancelDelete => Sent("DELETE") = {}
       /\ deletePipelines => Sent("DELETE") = {}]_vars

\* the user has confirmed the deletion of two pipelines: two DELETE requests
\* of one operation are in flight
BatchDeleteSent ==
    /\ confirm = {}
    /\ \E r1, r2 \in inflight :
          /\ r1.method = "DELETE" /\ r2.method = "DELETE"
          /\ r1.op = r2.op /\ r1.uuid # r2.uuid

DeleteFailedAlert == Alert("Error", Message("Failed to delete pipeline: ${e}", <<>>))

\* C6: when a request of a batch delete is rejected after another of the
\* batch deleted its pipeline, the error alert is shown and the list is
\* fetched again.
RefetchAfterFailedDelete ==
    (alert = DeleteFailedAlert /\ Uuids(pipelines) \ Uuids(server) # {})
        => \E r \in inflight : r.method = "GET"

\* the promise of operation o before a step that may have started it
Settled(o) == IF o <= Len(ops) THEN ops[o] ELSE "none"

\* C7: the step in which the promise of a create, a rename or a delete
\* batch is fulfilled sends the GET of the list, no other step sends one,
\* and when it is sent no request of that operation is in flight any more.
RefetchAfterSettled ==
    [][\A o \in 1..Len(ops') :
          /\ (Settled(o) # "resolved" /\ ops'[o] = "resolved")
                <=> FetchRequest(o) \in Sent("GET")
          /\ FetchRequest(o) \in Sent("GET")
                => \A r \in inflight' : r.op = o => r.method = "GET"]_vars

\* a delete batch of two was fulfilled and the list is being fetched again
RefetchAfterBatch ==
    \E o \in 1..Len(ops) :
        /\ ops[o] = "resolved"
        /\ FetchRequest(o) \in inflight
        /\ Cardinality(Uuids(pipelines) \ Uuids(server)) >= 2


\* C8 as stated: after a create or a rename has failed, refused by a check
\* of the form or rejected by the server, its dialog is still open.
DialogOpenAfterFailure ==
    [][/\ (onSubmitCreatePipeline /\ alert' # NoAlert) => isCreateDialogOpen'
       /\ (onSubmitEditPipelinePathModal /\ alert' # NoAlert) => EditDialogOpen'
       /\ SettleCreateRejected => isCreateDialogOpen'
       /\ SettleRenameRejected => EditDialogOpen']_vars

\* C8 amended: a create or a rename that a check of the form refuses leaves
\* its dialog open.  A create that passes the checks closes its dialog in
\* the step that sends the POST, and a rejection by the server does not open
\* it again; the edit dialog is closed by the step in which the PUT settles,
\* rejected or not.
DialogOpenAfterRefusal ==
    [][/\ (onSubmitCreatePipeline /\ alert' # NoAlert) => isCreateDialogOpen'
       /\ (onSubmitEditPipelinePathModal /\ alert' # NoAlert) => EditDialogOpen'
       /\ Sent("POST") # {} => ~isCreateDialogOpen'
       /\ SettleCreateRejected => isCreateDialogOpen' = isCreateDialogOpen
       /\ (\E r \in inflight \ inflight' : r.method = "PUT") => ~EditDialogOpen']_vars

\* the server rejected a create and the alert is up over the closed dialog
CreateRejectedDialogClosed ==
    /\ alert = Alert("Error", Message("Could not create pipeline. Reason unknown.", <<>>))
    /\ ~isCreateDialogOpen
    /\ \E o \in 1..Len(ops) : ops[o] = "rejected"

\* C9: while a create, rename or delete request is in flight the status of
\* useAsync is PENDING and the submit buttons are disabled.
PendingWhileInFlight ==
    \A r \in inflight :
        r.method \in Mutating
            => (status = "PENDING" /\ CreateSubmitDisabled /\ EditSaveDisabled)

\* C10: every rejection of a rename or create by the server shows an alert
\* with a defined message: the message of the table for a rename body with
\* a code in 0..6 (for code 2 the one that carries the attempted path), and
\* for a body that does not parse a fallback message, with the error logged.
RejectionAlerted ==
    [][\A r \in inflight :
          /\ \A body \in RenameFailures :
                RenameRejectedWith(r, body) =>
                   /\ alert'.title = "Error"
                   /\ alert'.message # Undefined
                   /\ (body.kind = "json" /\ body.code \in ErrorCodes)
                         => alert'.message = getErrorMessages(r.path)[body.code]
                   /\ (body.kind = "json" /\ body.code = 2)
                         => alert'.message.arg = r.path
                   /\ body.kind = "raw" => consoleError'
          /\ \A body \in CreateFailures \ {Body("canceled", 0, <<>>)} :
                CreateRejectedWith(r, body) =>
                   /\ alert'.title = "Error"
                   /\ alert'.message # Undefined
                   /\ body.kind = "raw" => consoleError']_vars

(***************************************************************************)
(* The parameter file dialog on its own: the pipeline list is not on       *)
(* screen.                                                                 *)
(***************************************************************************)
InitLoad ==
    /\ DialogInit
    /\ mounted = FALSE
    /\ server = <<>>
    /\ loaded = FALSE
    /\ pipelines = <<>>
    /\ pipelineInEdit = NoPipelineInEdit
    /\ isCreateDialogOpen = FALSE
    /\ isEditingPipelinePath = TRUE
    /\ state = [createPipelineName |-> INITIAL_PIPELINE_NAME,
                createPipelinePath |-> INITIAL_PIPELINE_PATH]
    /\ status = "IDLE"
    /\ confirm = {}
    /\ inflight = {}
    /\ ops = <<>>
    /\ alert = NoAlert
    /\ consoleError = FALSE

NextLoad ==
    \/ openDialog
    \/ onClose
    \/ onChangeFilePath
    \/ SettleCheckFileValidity
    \/ onSubmit

SpecLoad == InitLoad /\ [][NextLoad]_vars

(***************************************************************************)
(* Properties of the parameter file dialog.                                *)
(***************************************************************************)
\* C11: only a submit of the form calls onSubmit; a submit before a file was
\* chosen, or while the validity check reports the file missing, calls it
\* not at all, and every other submit calls it exactly once, with the
\* selected path, which is that of an existing file with the .json extension.
SubmitEmitsExistingFile ==
    [][/\ submitted' # submitted => onSubmit
       /\ onSubmit =>
             IF selectedPath = <<>> \/ ~doesFileExist
             THEN submitted' = submitted
             ELSE /\ submitted' = Append(submitted, selectedPath)
                  /\ FileValid(selectedPath)
                  /\ EndsWith(selectedPath, DotJson)]_vars

=============================================================================
